---- MODULE Spec2Model ----
(***************************************************************************)
(* Game-state synchronisation core of cyber-gamecraft: the store kept by   *)
(* useGameStateManager (three per-variant records and the active variant), *)
(* the two remote channels that merge into it, and the tick / input        *)
(* handlers of the three game components.                                  *)
(*                                                                         *)
(* Numbers: the racing code steps speeds and positions by 1.5 and 0.5, so  *)
(* every numeric game quantity is kept in half-units: Fx(n) is the source  *)
(* number n, Fx(n) + 1 is n + 0.5.                                         *)
(*                                                                         *)
(* Rendering: the game components read the `gameState` prop captured at    *)
(* the last React render (variable rendered), while every setGameStates    *)
(* updater runs on the live store (variable gameStates).  Handlers of      *)
(* discrete user events (click, keydown) are followed by a synchronous     *)
(* render of the store in the same step; timer ticks, discrete responses   *)
(* and streamed messages are rendered by a later Render step, and it is    *)
(* that render which hands a newly streamed delta to the merge effect.     *)
(***************************************************************************)
EXTENDS Integers, FiniteSets, Sequences, TLC

VARIABLES
    currentGame,   \* useGameStateManager: currentGame
    gameStates,    \* useGameStateManager: gameStates (the store)
    wsGameState,   \* wsGameState as of the last render (the channel's gameState)
    wsIncoming,    \* delta the channel received since that render
    wsPending,     \* a delta arrived and no render has processed it yet
    aiResponse,    \* useMultiGameWebSocket: aiResponse (aiLastAction)
    inflight,      \* discrete POSTs awaiting completion, per captured variant
    rendered,      \* gameStates as captured by the last render (props)
    comboCount,    \* FightingGameWithAI: comboCount
    keys,          \* RacingGameWithAI: keys (held keys)
    selectedShot,  \* BadmintonGameWithAI: selectedShot
    now,           \* the clock read by Date.now(), in clock steps
    sessionId,     \* Index: sessionId as computed by the last render of Index
    poll,          \* Index: the running personality interval (start, captured id)
    lastGet,       \* the last personality GET issued (time, id); mount time before
    getInflight,   \* personality GETs awaiting completion
    personalityFromAPI, \* Index: personalityFromAPI
    dirty,         \* a state update of Index awaits its render
    loops,         \* live game-loop intervals (setInterval ids not cleared), per variant
    sent,          \* last PlayerAction handed to sendPlayerAction
    op,            \* history: what the last step did
    swBase,        \* history: store before the current run of switches
    auth,          \* history: last completed authoritative value per field
    aiApplied,     \* history: a tick has already applied aiResponse
    streak,        \* history: consecutive successful combo moves from counter 0
    remote,        \* history: number of network events so far
    inputs         \* history: number of user events so far

vars == <<currentGame, gameStates, wsGameState, wsIncoming, wsPending, aiResponse, inflight,
          rendered, comboCount, keys, selectedShot, now, sessionId, poll, lastGet,
          getInflight, personalityFromAPI, dirty, loops, sent, op, swBase, auth,
          aiApplied, streak, remote, inputs>>

\* the state of the personality poll and the clock
pollVars == <<now, lastGet, getInflight, personalityFromAPI>>

----------------------------------------------------------------------------
(* Values *)

Fx(n) == 2 * n

Pos(px, py) == [x |-> px, y |-> py]

Max(a, b) == IF a >= b THEN a ELSE b

Min(a, b) == IF a <= b THEN a ELSE b

Abs(a) == IF a >= 0 THEN a ELSE 0 - a

Games == {"fighting", "badminton", "racing"}

EmptyRec == [f \in {} |-> 0]

InitialGameStates ==
    [ fighting  |-> [ playerHealth   |-> Fx(100),
                      aiHealth       |-> Fx(100),
                      playerPosition |-> Pos(Fx(100), Fx(300)),
                      aiPosition     |-> Pos(Fx(500), Fx(300)),
                      isPlayerTurn   |-> TRUE ],
      badminton |-> [ playerScore    |-> 0,
                      aiScore        |-> 0,
                      rallyCount     |-> 0,
                      shuttlecockPos |-> Pos(Fx(300), Fx(200)),
                      playerPos      |-> Pos(Fx(150), Fx(350)),
                      aiPos          |-> Pos(Fx(450), Fx(50)) ],
      racing    |-> [ playerPosition |-> Pos(Fx(250), Fx(400)),
                      aiPosition     |-> Pos(Fx(350), Fx(380)),
                      playerSpeed    |-> Fx(60),
                      aiSpeed        |-> Fx(65),
                      lap            |-> 1,
                      trackSection   |-> "straight" ] ]

NoAction == [current_game_action |-> ""]

\* const sessionId = 'user_' + Date.now(), at t seconds on the clock
\* (the clock is sampled at whole seconds; Date.now() counts milliseconds)
SessionIdAt(t) == <<"user_", t * 1000>>

\* setInterval(fetchPersonality, 5000), in seconds
PollPeriod == 5

NoSent == [game |-> "fighting", session |-> SessionIdAt(0), action |-> EmptyRec,
           body |-> EmptyRec]

NoPersonality == [kind |-> "null"]

NoOp == [kind |-> "init", merged |-> FALSE]

NoBase == [n |-> 0, game |-> "fighting", via |-> "fighting", states |-> InitialGameStates]

NoAuth == [g \in Games |-> EmptyRec]

----------------------------------------------------------------------------
(* Bounds of the exploration *)

MaxRemote == 2

MaxInputs == 3

MaxInflight == 1

MaxRush == 3

RunTicks == 56

MaxRally == 2

MaxNow == 7

LapTicks == 176

BrawlRush == 14

----------------------------------------------------------------------------
(* The store's merge *)

\* { ...prev, ...partial } with the spread of prev forgotten
MergeReplace(prev, partial) == partial

\* { ...prev, ...partial }: top-level fields of partial overwrite prev's
Merge(prev, partial) ==
    [f \in (DOMAIN prev) \cup (DOMAIN partial) |->
        IF f \in DOMAIN partial THEN partial[f] ELSE prev[f]]

\* setGameStates(prev => ({ ...prev, [game]: { ...prev[game], ...partial } }))
MergeInto(store, game, partial) ==
    [store EXCEPT ![game] = Merge(store[game], partial)]

\* the wsGameState effect: runs when wsGameState or currentGame changed,
\* merges a non-empty wsGameState into the record of the active variant
UseEffectWs(store, game, due) ==
    IF due /\ DOMAIN wsGameState # {}
    THEN MergeInto(store, game, wsGameState)
    ELSE store

\* the variant a discrete response is merged into, read live
ResponseGameLive(captured) == currentGame

\* the variant a discrete response is merged into: the currentGame the
\* sendPlayerAction closure captured when the call was issued
ResponseGame(captured) == captured

----------------------------------------------------------------------------
(* Remote payloads: what the service may push or answer, per variant *)

StateFragments ==
    [ fighting  |-> { [aiHealth |-> Fx(40)],
                      [aiHealth |-> Fx(70), playerHealth |-> Fx(150)] },
      badminton |-> { [playerScore |-> 1, rallyCount |-> 0 - 1] },
      racing    |-> { [lap |-> 0, aiPosition |-> Pos(Fx(600), Fx(200))] } ]

\* streamed payloads that are malformed for the active variant: the empty
\* object, and an object carrying a field of another variant's record
MalformedPayloads ==
    [ fighting  |-> { EmptyRec, [lap |-> 2] },
      badminton |-> { EmptyRec, [aiHealth |-> Fx(50)] },
      racing    |-> { EmptyRec, [rallyCount |-> 5] } ]

\* an outcome of the discrete call: whether fetch resolved, the HTTP
\* status, whether res.json() parsed the body, and the body's two fields
Outcome(transport, status, parsed, success, hasState, fragment) ==
    [ transport |-> transport, status |-> status, parsed |-> parsed,
      success |-> success, hasState |-> hasState, game_state |-> fragment ]

\* outcomes of the discrete call: transport failure, unparsable body, a body
\* without truthy success, a body without game_state, and a complete body
\* under a 200 and under a 500 status
HttpOutcomes(g) ==
    { Outcome(FALSE, 0, FALSE, FALSE, FALSE, EmptyRec),
      Outcome(TRUE, 200, FALSE, FALSE, FALSE, EmptyRec),
      Outcome(TRUE, 200, TRUE, TRUE, FALSE, EmptyRec) }
    \cup { Outcome(TRUE, 200, TRUE, FALSE, TRUE, p) : p \in StateFragments[g] }
    \cup { Outcome(TRUE, st, TRUE, TRUE, TRUE, p) :
             st \in {200, 500}, p \in StateFragments[g] }

\* the response handler's test with the success flag not looked at
ResponseOkAnyFlag(r) == r.transport /\ r.parsed /\ r.hasState

\* the response handler merges iff fetch resolved, res.json() parsed the
\* body, and data.success && data.game_state; res.ok / res.status is not read
ResponseOk(r) == r.transport /\ r.parsed /\ r.success /\ r.hasState

\* why a discrete call's response was not merged
Fault(r) ==
    CASE ~r.transport -> "transport"
      [] ~r.parsed    -> "unparsable"
      [] ~r.success   -> "no_success"
      [] ~r.hasState  -> "no_game_state"
      [] OTHER        -> "none"

\* history of authoritative values: a delta records its fields when the
\* client processes its completion, a local write forgets the fields it wrote
AuthDelta(a, g, p) == [a EXCEPT ![g] = Merge(a[g], p)]

AuthLocal(a, g, p) ==
    [a EXCEPT ![g] = [f \in (DOMAIN a[g]) \ (DOMAIN p) |-> a[g][f]]]

----------------------------------------------------------------------------
(* The game loops' timers *)

\* the effect of a game component creates its loop: window.setInterval
SetInterval(l, g) == [l EXCEPT ![g] = @ + 1]

\* an effect cleanup that clears nothing
ClearNothing(l, g) == l

\* the effect's cleanup: clearInterval of the loop the effect created
ClearInterval(l, g) == [l EXCEPT ![g] = Max(0, @ - 1)]

\* a render with a changed dependency (gameState, aiLastAction, keys): the
\* cleanup of the previous effect run, then the effect again
Recreate(l, g) == SetInterval(ClearInterval(l, g), g)

----------------------------------------------------------------------------
(* Initial state: useState initialisers *)

Init ==
    /\ currentGame = "fighting"
    /\ gameStates = InitialGameStates
    /\ wsGameState = EmptyRec
    /\ wsIncoming = EmptyRec
    /\ wsPending = FALSE
    /\ aiResponse = NoAction
    /\ inflight = [g \in Games |-> 0]
    /\ rendered = InitialGameStates
    /\ comboCount = 0
    /\ keys = {}
    /\ selectedShot = "clear"
    /\ now = 0
    /\ sessionId = SessionIdAt(0)
    /\ poll = [start |-> 0, session |-> SessionIdAt(0)]
    /\ lastGet = [at |-> 0, session |-> SessionIdAt(0), issued |-> FALSE]
    /\ getInflight = 0
    /\ personalityFromAPI = NoPersonality
    /\ dirty = FALSE
    /\ loops = SetInterval([g \in Games |-> 0], "fighting")
    /\ sent = NoSent
    /\ op = NoOp
    /\ swBase = NoBase
    /\ auth = NoAuth
    /\ aiApplied = FALSE
    /\ streak = 0
    /\ remote = 0
    /\ inputs = 0

\* one more network event, within the explored number of them
RemoteEvent ==
    /\ remote < MaxRemote
    /\ remote' = remote + 1
    /\ inputs' = inputs

\* one more user event, within the explored number of them
UserEvent ==
    /\ inputs < MaxInputs
    /\ inputs' = inputs + 1
    /\ remote' = remote

\* a render of Index: the function body runs again, line 35 computes
\* sessionId anew, and the personality effect (dependency: sessionId) clears
\* and re-creates its interval when the value differs from the last render's
IndexRender ==
    /\ sessionId' = SessionIdAt(now)
    /\ poll' = IF SessionIdAt(now) # sessionId
               THEN [start |-> now, session |-> SessionIdAt(now)]
               ELSE poll
    /\ dirty' = FALSE

\* Index does not render in this step
NoIndexRender == UNCHANGED <<sessionId, poll>>

----------------------------------------------------------------------------
(* The hook's operations *)

\* switchToGame(newGame), from a click: setCurrentGame, then the render it
\* causes, in which the wsGameState effect re-runs (currentGame is one of
\* its dependencies) and the previous variant's component unmounts
SwitchToGame(newGame) ==
    LET changed == newGame # currentGame
        store   == UseEffectWs(gameStates, newGame, changed)
    IN  /\ UserEvent
        /\ currentGame' = newGame
        /\ gameStates' = store
        /\ rendered' = store
        /\ comboCount' = IF changed THEN 0 ELSE comboCount
        /\ keys' = IF changed THEN {} ELSE keys
        /\ selectedShot' = IF changed THEN "clear" ELSE selectedShot
        /\ IF changed THEN IndexRender ELSE NoIndexRender /\ dirty' = dirty
        /\ streak' = IF changed THEN 0 ELSE streak
        /\ op' = IF changed /\ DOMAIN wsGameState # {}
                 THEN [kind |-> "switch", merged |-> TRUE, game |-> newGame,
                       partial |-> wsGameState]
                 ELSE [kind |-> "switch", merged |-> FALSE, game |-> newGame]
        /\ swBase' = IF op.kind = "switch"
                     THEN [swBase EXCEPT !.n = @ + 1]
                     ELSE [n |-> 1, game |-> currentGame, via |-> newGame,
                           states |-> gameStates]
        /\ UNCHANGED <<wsGameState, wsIncoming, wsPending, aiResponse, inflight,
                       sent, auth, aiApplied>>
        /\ UNCHANGED pollVars
        /\ loops' = IF changed THEN SetInterval(ClearInterval(loops, currentGame), newGame)
                    ELSE loops

\* a streamed state delta arrives: the channel hook sets its gameState,
\* which the next render hands to useGameStateManager as wsGameState
WsDelta(d) ==
    /\ RemoteEvent
    /\ wsIncoming' = d
    /\ wsPending' = TRUE
    /\ op' = [kind |-> "ws", merged |-> FALSE, game |-> currentGame]
    /\ swBase' = NoBase
    /\ NoIndexRender
    /\ UNCHANGED <<currentGame, gameStates, wsGameState, aiResponse, inflight,
                   rendered, comboCount, keys, sent, auth, aiApplied, streak,
                   selectedShot, dirty>>
    /\ UNCHANGED pollVars
    /\ UNCHANGED loops

\* a streamed AI action arrives: the channel hook stores it as aiResponse
AiAction(label) ==
    /\ RemoteEvent
    /\ aiResponse' = [current_game_action |-> label]
    /\ aiApplied' = FALSE
    /\ op' = [kind |-> "ai", merged |-> FALSE, game |-> currentGame]
    /\ swBase' = NoBase
    /\ NoIndexRender
    /\ UNCHANGED <<currentGame, gameStates, wsGameState, wsIncoming, wsPending,
                   inflight, rendered, comboCount, keys, sent, auth, streak,
                   selectedShot, dirty>>
    /\ UNCHANGED pollVars
    /\ UNCHANGED loops

\* a render scheduled by a timer or network update commits: the components
\* capture the store; a newly arrived delta becomes wsGameState and the
\* wsGameState effect merges it
Render ==
    /\ wsPending \/ rendered # gameStates \/ dirty
    /\ IndexRender
    /\ rendered' = gameStates
    /\ wsGameState' = IF wsPending THEN wsIncoming ELSE wsGameState
    /\ wsIncoming' = EmptyRec
    /\ wsPending' = FALSE
    /\ gameStates' = IF wsPending /\ DOMAIN wsIncoming # {}
                     THEN MergeInto(gameStates, currentGame, wsIncoming)
                     ELSE gameStates
    /\ op' = IF wsPending /\ DOMAIN wsIncoming # {}
             THEN [kind |-> "render", merged |-> TRUE, game |-> currentGame,
                   partial |-> wsIncoming]
             ELSE [kind |-> "render", merged |-> FALSE, game |-> currentGame]
    /\ auth' = IF wsPending THEN AuthDelta(auth, currentGame, wsIncoming) ELSE auth
    /\ swBase' = NoBase
    /\ UNCHANGED <<currentGame, aiResponse, inflight, comboCount, keys, sent,
                   aiApplied, streak, remote, inputs, selectedShot>>
    /\ UNCHANGED pollVars
    /\ loops' = IF gameStates[currentGame] # rendered[currentGame]
                THEN Recreate(loops, currentGame) ELSE loops

\* updateGameState(newState)
UpdateGameState(newState) ==
    /\ UserEvent
    /\ gameStates' = MergeInto(gameStates, currentGame, newState)
    /\ auth' = AuthLocal(auth, currentGame, newState)
    /\ op' = [kind |-> "update", merged |-> TRUE, game |-> currentGame,
              partial |-> newState]
    /\ swBase' = NoBase
    /\ NoIndexRender
    /\ UNCHANGED <<currentGame, wsGameState, wsIncoming, wsPending, aiResponse,
                   inflight, rendered, comboCount, keys, sent, aiApplied, streak,
                   selectedShot, dirty>>
    /\ UNCHANGED pollVars
    /\ UNCHANGED loops

\* the body of the discrete POST: { ...actionData, ...gameStates[currentGame] }
ActionBody(actionData) == Merge(actionData, rendered[currentGame])

\* the record sendPlayerAction(actionData) puts on the wire
Request(actionData) ==
    [game |-> currentGame, session |-> sessionId, action |-> actionData,
     body |-> ActionBody(actionData)]

\* one more discrete call awaits its response (calls beyond MaxInflight are
\* issued too, but their completion is not followed)
Issue(calls, game) == [calls EXCEPT ![game] = Min(MaxInflight, @ + 1)]

\* sendPlayerAction(actionData): stream it, and issue the discrete call
SendPlayerAction(actionData) ==
    /\ UserEvent
    /\ inflight' = Issue(inflight, currentGame)
    /\ sent' = Request(actionData)
    /\ op' = [kind |-> "send", merged |-> FALSE, game |-> currentGame]
    /\ swBase' = NoBase
    /\ NoIndexRender
    /\ UNCHANGED <<currentGame, gameStates, wsGameState, wsIncoming, wsPending,
                   aiResponse, rendered, comboCount, keys, auth, aiApplied, streak,
                   selectedShot, dirty>>
    /\ UNCHANGED pollVars
    /\ UNCHANGED loops

\* the discrete call completes: .then(res => res.json()).then(data => ...)
HttpComplete(captured, r) ==
    LET g  == ResponseGame(captured)
        ok == ResponseOk(r)
    IN  /\ RemoteEvent
        /\ inflight[captured] > 0
        /\ inflight' = [inflight EXCEPT ![captured] = @ - 1]
        /\ gameStates' = IF ok THEN MergeInto(gameStates, g, r.game_state)
                         ELSE gameStates
        /\ auth' = IF ok THEN AuthDelta(auth, captured, r.game_state) ELSE auth
        /\ op' = IF ok
                 THEN [kind |-> "http", merged |-> TRUE, game |-> captured,
                       partial |-> r.game_state, fault |-> Fault(r),
                       status |-> r.status]
                 ELSE [kind |-> "http", merged |-> FALSE, game |-> captured,
                       fault |-> Fault(r), status |-> r.status]
        /\ swBase' = NoBase
        /\ NoIndexRender
        /\ UNCHANGED <<currentGame, wsGameState, wsIncoming, wsPending, aiResponse,
                       rendered, comboCount, keys, sent, aiApplied, streak,
                       selectedShot, dirty>>
        /\ UNCHANGED pollVars
        /\ UNCHANGED loops

\* local partial states and actions the components hand to the hook
LocalUpdates ==
    [ fighting  |-> { [aiHealth |-> Fx(92)] },
      badminton |-> { [rallyCount |-> 1, shuttlecockPos |-> Pos(Fx(200), Fx(100))] },
      racing    |-> { [playerSpeed |-> Fx(62), lap |-> 1] } ]

LocalActions ==
    [ fighting  |-> { [action_type |-> "attack"] },
      badminton |-> { [action_type |-> "shot"] },
      racing    |-> { [action_type |-> "steer"] } ]

Next ==
    \/ \E g \in Games : SwitchToGame(g)
    \/ \E d \in StateFragments[currentGame] : WsDelta(d)
    \/ \E d \in MalformedPayloads[currentGame] : WsDelta(d)
    \/ Render
    \/ \E p \in LocalUpdates[currentGame] : UpdateGameState(p)
    \/ \E a \in LocalActions[currentGame] : SendPlayerAction(a)
    \/ \E g \in Games : \E r \in HttpOutcomes(g) : HttpComplete(g, r)

Spec == Init /\ [][Next]_vars

----------------------------------------------------------------------------
(* FightingGameWithAI *)

\* action labels the service may stream, per variant; the last of each set
\* is a label the variant's interpreter does not know
AiLabels ==
    [ fighting  |-> {"quick_jab", "aggressive_combo", "rush_forward", "block", "taunt"},
      badminton |-> {"smash", "drop_shot", "clear_shot", "net_shot", "lob"},
      racing    |-> {"overtake_attempt", "perfect_racing_line", "blocking_defense",
                     "aggressive_overtake", "pit_stop"} ]

Moves == {"punch", "kick", "combo"}

\* hit detection with the boundary included
InRangeInclusive(a, b) == Abs(a.x - b.x) <= Fx(80)

\* hit detection: distance < 80
InRange(a, b) == Abs(a.x - b.x) < Fx(80)

\* calculateDamage with the combo bonus taken after the increment
CalculateDamageNext(moveType, count) ==
    CASE moveType = "punch" -> Fx(8)
      [] moveType = "kick"  -> Fx(12)
      [] moveType = "combo" -> Fx(15) + ((count + 1) * Fx(3))
      [] OTHER              -> Fx(5)

\* calculateDamage(moveType), reading comboCount
CalculateDamage(moveType, count) ==
    CASE moveType = "punch" -> Fx(8)
      [] moveType = "kick"  -> Fx(12)
      [] moveType = "combo" -> Fx(15) + (count * Fx(3))
      [] OTHER              -> Fx(5)

NoUpdate == [update |-> FALSE, partial |-> EmptyRec]

Update(p) == [update |-> TRUE, partial |-> p]

\* the AI's hit without the floor at 0
AiHitUnclamped(health) == health - Fx(12)

\* Math.max(0, gameState.playerHealth - 12)
AiHit(health) == Max(0, health - Fx(12))

\* processAIAction(aiAction) on the rendered fighting record gs
ProcessAIAction(gs, action) ==
    CASE action = "" -> NoUpdate
      [] action \in {"aggressive_combo", "quick_jab"} ->
            IF InRange(gs.aiPosition, gs.playerPosition)
            THEN Update([playerHealth |-> AiHit(gs.playerHealth)])
            ELSE NoUpdate
      [] action = "rush_forward" ->
            Update([aiPosition |-> [gs.aiPosition EXCEPT !.x = @ - Fx(30)]])
      [] OTHER -> NoUpdate

\* one run of the 60 Hz interval callback of FightingGameWithAI, in a run
\* explored for as long as `rushes` applications of rush_forward move the AI
FightingStep(rushes) ==
    LET gs     == rendered.fighting
        action == aiResponse.current_game_action
        r      == ProcessAIAction(gs, action)
    IN  /\ loops.fighting > 0
        /\ action = "rush_forward" => gs.aiPosition.x > Fx(500) - (rushes * Fx(30))
        /\ gameStates' = IF r.update
                         THEN MergeInto(gameStates, "fighting", r.partial)
                         ELSE gameStates
        /\ auth' = AuthLocal(auth, "fighting", r.partial)
        /\ aiApplied' = (aiApplied \/ action # "")
        /\ op' = [kind |-> "tick", merged |-> r.update, game |-> "fighting",
                  partial |-> r.partial, ai |-> action, again |-> aiApplied]
        /\ swBase' = NoBase
        /\ NoIndexRender
        /\ UNCHANGED <<currentGame, wsGameState, wsIncoming, wsPending, aiResponse,
                       inflight, rendered, comboCount, keys, sent, streak, remote, inputs,
                       selectedShot, dirty>>
        /\ UNCHANGED pollVars
        /\ UNCHANGED loops

FightingTick == FightingStep(MaxRush)

\* the PlayerAction handlePlayerMove sends
AttackAction(gs, moveType, position, success) ==
    [ action_type     |-> "attack",
      move_type       |-> moveType,
      success         |-> success,
      player_position |-> <<position.x, position.y>>,
      damage          |-> IF success THEN CalculateDamage(moveType, comboCount) ELSE 0,
      combo           |-> IF moveType = "combo" THEN comboCount + 1 ELSE 0,
      context         |-> [ player_health        |-> gs.playerHealth,
                            ai_health            |-> gs.aiHealth,
                            distance_to_opponent |-> Abs(position.x - gs.aiPosition.x) ] ]

\* the player's hit with the damage added
PlayerHitAdds(health, damage) == Max(0, health + damage)

\* Math.max(0, gameState.aiHealth - damage)
PlayerHit(health, damage) == Max(0, health - damage)

\* handleKeyPress -> handlePlayerMove(moveType, gameState.playerPosition),
\* and the synchronous render of the keydown event
HandlePlayerMove(moveType) ==
    LET gs       == rendered.fighting
        position == gs.playerPosition
        success  == InRange(position, gs.aiPosition)
        damage   == CalculateDamage(moveType, comboCount)
        hit      == [aiHealth |-> PlayerHit(gs.aiHealth, damage)]
        store    == IF success THEN MergeInto(gameStates, "fighting", hit)
                    ELSE gameStates
    IN  /\ currentGame = "fighting"
        /\ UserEvent
        /\ sent' = Request(AttackAction(gs, moveType, position, success))
        /\ inflight' = Issue(inflight, "fighting")
        /\ gameStates' = store
        /\ rendered' = IF success THEN store ELSE rendered
        /\ comboCount' = IF success
                         THEN (IF moveType = "combo" THEN comboCount + 1 ELSE 0)
                         ELSE comboCount
        /\ auth' = IF success THEN AuthLocal(auth, "fighting", hit) ELSE auth
        /\ streak' = IF success /\ moveType = "combo" /\ (comboCount = 0 \/ streak > 0)
                     THEN streak + 1 ELSE 0
        /\ op' = [kind |-> "move", merged |-> success, game |-> "fighting",
                  partial |-> IF success THEN hit ELSE EmptyRec,
                  move |-> moveType, success |-> success]
        /\ swBase' = NoBase
        /\ IF success THEN IndexRender ELSE NoIndexRender /\ dirty' = dirty
        /\ UNCHANGED <<currentGame, wsGameState, wsIncoming, wsPending, aiResponse,
                       keys, aiApplied, selectedShot>>
        /\ UNCHANGED pollVars
        /\ loops' = IF success THEN Recreate(loops, "fighting") ELSE loops

\* what the service may push while fighting is active: the AI at distance
\* 79, 80 and 81 from the player, the first with little health left
FightingPushes ==
    { [aiPosition |-> Pos(Fx(179), Fx(300)), aiHealth |-> Fx(20)],
      [aiPosition |-> Pos(Fx(180), Fx(300))],
      [aiPosition |-> Pos(Fx(181), Fx(300))] }

\* one label per branch of processAIAction
FightingLabels == {"quick_jab", "rush_forward", "taunt"}

NextFighting ==
    \/ \E a \in FightingLabels : AiAction(a)
    \/ \E d \in FightingPushes : WsDelta(d)
    \/ Render
    \/ FightingTick
    \/ \E m \in Moves : HandlePlayerMove(m)

SpecFighting == Init /\ [][NextFighting]_vars

\* the same loop, explored until the rushing AI has passed the player
BrawlTick == FightingStep(BrawlRush)

\* fights under local operations only: the AI's actions and the player's
\* moves, no state delta from the service
NextBrawl ==
    \/ \E a \in {"rush_forward", "quick_jab"} : AiAction(a)
    \/ Render
    \/ BrawlTick
    \/ \E m \in {"punch", "combo"} : HandlePlayerMove(m)

SpecBrawl == Init /\ [][NextBrawl]_vars

----------------------------------------------------------------------------
(* RacingGameWithAI *)

ArrowKeys == {"ArrowUp", "ArrowDown", "ArrowLeft", "ArrowRight"}

Held(arrow, letter) == arrow \in keys \/ letter \in keys

\* accelerate without the upper clamp
AccelerateUnclamped(speed) == speed + Fx(1) + 1

\* newSpeed = Math.min(140, newSpeed + 1.5)
Accelerate(speed) == Min(Fx(140), speed + Fx(1) + 1)

\* newSpeed = Math.max(10, newSpeed - 2)
Brake(speed) == Max(Fx(10), speed - Fx(2))

\* newPos.x = Math.max(70, newPos.x - 2)
SteerLeft(x) == Max(Fx(70), x - Fx(2))

\* newPos.x = Math.min(530, newPos.x + 2)
SteerRight(x) == Min(Fx(530), x + Fx(2))

\* newAIPos.x = Math.max(70, Math.min(530, newAIPos.x))
KeepOnTrack(x) == Max(Fx(70), Min(Fx(530), x))

\* determineTrackSection(pos)
DetermineTrackSection(pos) ==
    IF pos.y < Fx(100) \/ pos.y > Fx(300) THEN "corner" ELSE "straight"

\* isOvertaking(playerPos, aiPos)
IsOvertaking(playerPos, aiPos) ==
    Abs(playerPos.x - aiPos.x) < Fx(60) /\ Abs(playerPos.y - aiPos.y) < Fx(50)

\* updatePlayerPosition() on the rendered racing record gs: the new player
\* fields and the action type of this tick
UpdatePlayerPosition(gs) ==
    LET up     == Held("ArrowUp", "w")
        down   == Held("ArrowDown", "s")
        left   == Held("ArrowLeft", "a")
        right  == Held("ArrowRight", "d")
        speed1 == IF up THEN Accelerate(gs.playerSpeed) ELSE gs.playerSpeed
        speed2 == IF down THEN Brake(speed1) ELSE speed1
        y1     == IF up THEN gs.playerPosition.y - Fx(2) ELSE gs.playerPosition.y
        x1     == IF left THEN SteerLeft(gs.playerPosition.x) ELSE gs.playerPosition.x
        x2     == IF right THEN SteerRight(x1) ELSE x1
        newPos == Pos(x2, y1)
        newLap == IF newPos.y <= Fx(50) /\ gs.playerPosition.y > Fx(350)
                  THEN gs.lap + 1 ELSE gs.lap
        type   == IF left \/ right THEN "steer"
                  ELSE IF down THEN "brake"
                  ELSE IF up THEN "accelerate"
                  ELSE "maintain_speed"
    IN  [ actionType |-> type,
          action  |-> [ action_type        |-> type,
                        speed              |-> speed2,
                        player_position    |-> <<newPos.x, newPos.y>>,
                        ai_position        |-> <<gs.aiPosition.x, gs.aiPosition.y>>,
                        track_section      |-> DetermineTrackSection(newPos),
                        overtaking_attempt |-> IsOvertaking(newPos, gs.aiPosition),
                        success            |-> TRUE,
                        context |-> [ lap_number         |-> newLap,
                                      position_in_race   |->
                                          IF newPos.y < gs.aiPosition.y THEN 1 ELSE 2,
                                      distance_to_finish |-> Abs(newPos.y - Fx(50)) ] ],
          partial |-> [ playerPosition |-> newPos,
                        playerSpeed    |-> speed2,
                        lap            |-> newLap,
                        trackSection   |-> DetermineTrackSection(newPos) ] ]

\* processAIRacingAction(aiAction) on the rendered racing record gs;
\* rnd is the value of (Math.random() - 0.5) * 50
ProcessAIRacingAction(gs, action, rnd) ==
    LET pos == gs.aiPosition
        spd == gs.aiSpeed
        new ==
          CASE action = "overtake_attempt" ->
                 [ x |-> pos.x + (IF gs.playerPosition.x > pos.x THEN Fx(8) ELSE 0 - Fx(8)),
                   y |-> pos.y - Fx(2), speed |-> Min(Fx(150), spd + Fx(3)) ]
            [] action = "perfect_racing_line" ->
                 [ x |-> pos.x, y |-> pos.y - Fx(2), speed |-> Min(Fx(130), spd + Fx(1)) ]
            [] action = "blocking_defense" ->
                 [ x |-> gs.playerPosition.x + rnd, y |-> pos.y - Fx(1), speed |-> spd ]
            [] action = "aggressive_overtake" ->
                 [ x |-> pos.x, y |-> pos.y - Fx(3), speed |-> Min(Fx(160), spd + Fx(4)) ]
            [] OTHER ->
                 [ x |-> pos.x, y |-> pos.y - (Fx(1) + 1), speed |-> Max(Fx(40), spd - 1) ]
    IN  IF action = "" THEN NoUpdate
        ELSE Update([ aiPosition |-> Pos(KeepOnTrack(new.x), new.y),
                      aiSpeed    |-> new.speed ])

\* sampled values of (Math.random() - 0.5) * 50, a number in [-25, 25)
BlockOffsets == {0 - Fx(25), 0, Fx(25) - 1}

\* one run of the 60 Hz interval callback of RacingGameWithAI, in a run
\* explored for as long as `ticks` ticks move the cars
RacingStep(ticks) ==
    LET gs     == rendered.racing
        action == aiResponse.current_game_action
        u      == UpdatePlayerPosition(gs)
    IN  /\ loops.racing > 0
        /\ gs.playerPosition.y > Fx(400) - (ticks * Fx(2))
        /\ gs.aiPosition.y > Fx(380) - (ticks * Fx(3))
        /\ \E rnd \in (IF action = "blocking_defense" THEN BlockOffsets ELSE {0}) :
             LET r == ProcessAIRacingAction(gs, action, rnd)
             IN  /\ gameStates' = MergeInto(MergeInto(gameStates, "racing", u.partial),
                                            "racing", r.partial)
                 /\ auth' = AuthLocal(auth, "racing", Merge(u.partial, r.partial))
                 /\ op' = [kind |-> "tick", merged |-> TRUE, game |-> "racing",
                           partial |-> Merge(u.partial, r.partial), ai |-> action,
                           again |-> aiApplied]
        /\ sent' = IF u.actionType # "maintain_speed" THEN Request(u.action) ELSE sent
        /\ inflight' = IF u.actionType # "maintain_speed"
                       THEN Issue(inflight, "racing") ELSE inflight
        /\ aiApplied' = (aiApplied \/ action # "")
        /\ swBase' = NoBase
        /\ NoIndexRender
        /\ UNCHANGED <<currentGame, wsGameState, wsIncoming, wsPending, aiResponse,
                       rendered, comboCount, keys, streak, remote, inputs,
                       selectedShot, dirty>>
        /\ UNCHANGED pollVars
        /\ UNCHANGED loops

RacingTick == RacingStep(RunTicks)

\* handleKeyDown / handleKeyUp: setKeys, and the render of the key event
SetKey(key, down) ==
    /\ currentGame = "racing"
    /\ UserEvent
    /\ keys' = IF down THEN keys \cup {key} ELSE keys \ {key}
    /\ rendered' = gameStates
    /\ op' = [kind |-> "key", merged |-> FALSE, game |-> "racing"]
    /\ swBase' = NoBase
    /\ IF rendered # gameStates \/ dirty THEN IndexRender
       ELSE NoIndexRender /\ dirty' = dirty
    /\ UNCHANGED <<currentGame, gameStates, wsGameState, wsIncoming, wsPending,
                   aiResponse, inflight, comboCount, sent, auth, aiApplied, streak,
                   selectedShot>>
    /\ UNCHANGED pollVars
    /\ loops' = Recreate(loops, "racing")

\* no tick has moved anything yet: the explored runs choose the held keys
\* and the AI's action on the start grid and then let the loop run
OnStartGrid == gameStates.racing = InitialGameStates.racing

NextRacing ==
    \/ currentGame = "fighting" /\ SwitchToGame("racing")
    \/ OnStartGrid /\ \E k \in ArrowKeys : SetKey(k, TRUE)
    \/ OnStartGrid /\ \E k \in keys : SetKey(k, FALSE)
    \/ OnStartGrid /\ \E a \in AiLabels.racing : AiAction(a)
    \/ Render
    \/ RacingTick

SpecRacing == Init /\ [][NextRacing]_vars

\* the same loop, explored down the whole track to the finish line
LapTick == RacingStep(LapTicks)

\* runs to the finish: accelerate is held from the start grid on, and the
\* AI drives one action, a known or an unknown one; the fighting loop, live
\* when the client starts, ticks for as long as its timer is
NextLap ==
    \/ currentGame = "fighting" /\ SwitchToGame("racing")
    \/ OnStartGrid /\ SetKey("ArrowUp", TRUE)
    \/ OnStartGrid /\ \E a \in {"aggressive_overtake", "pit_stop"} : AiAction(a)
    \/ currentGame = "racing" /\ OnStartGrid /\ \E d \in StateFragments.racing : WsDelta(d)
    \/ Render
    \/ LapTick
    \/ FightingTick

SpecLap == Init /\ [][NextLap]_vars

\* the labels the service may stream during a race: the three that
\* accelerate the AI, and one the interpreter does not know
PaceLabels == {"overtake_attempt", "perfect_racing_line", "aggressive_overtake", "pit_stop"}

\* races in which the AI's action changes while the cars are running
NextPace ==
    \/ currentGame = "fighting" /\ SwitchToGame("racing")
    \/ currentGame = "racing" /\ \E a \in PaceLabels : AiAction(a)
    \/ Render
    \/ RacingTick

SpecPace == Init /\ [][NextPace]_vars

----------------------------------------------------------------------------
(* BadmintonGameWithAI *)

\* sampled values of Math.random(), in hundredths
Randoms == {20, 99}

\* Math.random() * span + base
RandomIn(rnd, span, base) == ((rnd * span) \div 100) + base

\* const shotSuccess = Math.random() > 0.2
ShotSuccess(rnd) == rnd > 20

\* processAIBadmintonAction(aiAction) on the rendered badminton record gs
ProcessAIBadmintonAction(gs, action, rnd) ==
    LET newShuttlecockPos ==
          CASE action \in {"smash", "aggressive_smash"} ->
                 Pos(RandomIn(rnd, Fx(400), Fx(100)), Fx(300))
            [] action = "drop_shot" ->
                 Pos(RandomIn(rnd, Fx(200), Fx(100)), Fx(250))
            [] action = "clear_shot" ->
                 Pos(RandomIn(rnd, Fx(400), Fx(100)), Fx(350))
            [] action = "net_shot" ->
                 Pos(RandomIn(rnd, Fx(300), Fx(150)), Fx(200))
            [] OTHER -> gs.shuttlecockPos
    IN  IF action = "" THEN NoUpdate
        ELSE Update([ shuttlecockPos |-> newShuttlecockPos,
                      rallyCount     |-> gs.rallyCount + 1 ])

\* one run of the 60 Hz interval callback of BadmintonGameWithAI
BadmintonTick ==
    LET gs     == rendered.badminton
        action == aiResponse.current_game_action
    IN  /\ loops.badminton > 0
        /\ gs.rallyCount < MaxRally
        /\ \E rnd \in Randoms :
             LET r == ProcessAIBadmintonAction(gs, action, rnd)
             IN  /\ gameStates' = IF r.update
                                  THEN MergeInto(gameStates, "badminton", r.partial)
                                  ELSE gameStates
                 /\ auth' = AuthLocal(auth, "badminton", r.partial)
                 /\ op' = [kind |-> "tick", merged |-> r.update, game |-> "badminton",
                           partial |-> r.partial, ai |-> action, again |-> aiApplied]
        /\ aiApplied' = (aiApplied \/ action # "")
        /\ swBase' = NoBase
        /\ NoIndexRender
        /\ UNCHANGED <<currentGame, wsGameState, wsIncoming, wsPending, aiResponse,
                       inflight, rendered, comboCount, keys, sent, streak, remote, inputs,
                       selectedShot, dirty>>
        /\ UNCHANGED pollVars
        /\ UNCHANGED loops

\* the PlayerAction handlePlayerShot sends
ShotAction(gs, targetPos, powerLevel, shotSuccess) ==
    [ action_type          |-> "shot",
      shot_type            |-> selectedShot,
      target               |-> <<targetPos.x, targetPos.y>>,
      power_level          |-> powerLevel,
      rally_count          |-> gs.rallyCount + 1,
      player_position      |-> <<gs.playerPos.x, gs.playerPos.y>>,
      shuttlecock_position |-> <<gs.shuttlecockPos.x, gs.shuttlecockPos.y>>,
      success              |-> shotSuccess,
      context              |-> [ rally_count |-> gs.rallyCount,
                                 court_side  |-> IF gs.playerPos.x < Fx(300)
                                                 THEN "left" ELSE "right",
                                 game_score  |-> <<gs.playerScore, gs.aiScore>> ] ]

\* handleCanvasClick -> handlePlayerShot(targetPos, 0.7), and the
\* synchronous render of the click event; rnd is the value of Math.random()
HandlePlayerShot(targetPos, rnd) ==
    LET gs          == rendered.badminton
        shotSuccess == ShotSuccess(rnd)
        shot        == [ shuttlecockPos |-> targetPos,
                         rallyCount     |-> gs.rallyCount + 1 ]
        store       == IF shotSuccess THEN MergeInto(gameStates, "badminton", shot)
                       ELSE gameStates
    IN  /\ currentGame = "badminton"
        /\ gs.rallyCount < MaxRally
        /\ UserEvent
        /\ sent' = Request(ShotAction(gs, targetPos, "0.7", shotSuccess))
        /\ inflight' = Issue(inflight, "badminton")
        /\ gameStates' = store
        /\ rendered' = IF shotSuccess THEN store ELSE rendered
        /\ IF shotSuccess THEN IndexRender ELSE NoIndexRender /\ dirty' = dirty
        /\ auth' = IF shotSuccess THEN AuthLocal(auth, "badminton", shot) ELSE auth
        /\ op' = [kind |-> "shot", merged |-> shotSuccess, game |-> "badminton",
                  partial |-> IF shotSuccess THEN shot ELSE EmptyRec,
                  success |-> shotSuccess]
        /\ swBase' = NoBase
        /\ UNCHANGED <<currentGame, wsGameState, wsIncoming, wsPending, aiResponse,
                       comboCount, keys, aiApplied, streak, selectedShot>>
        /\ UNCHANGED pollVars
        /\ loops' = IF shotSuccess THEN Recreate(loops, "badminton") ELSE loops

\* the shot selector buttons: setSelectedShot(shot), and the render of the click
SelectShot(shot) ==
    /\ currentGame = "badminton"
    /\ shot # selectedShot
    /\ UserEvent
    /\ selectedShot' = shot
    /\ rendered' = gameStates
    /\ IF rendered # gameStates \/ dirty THEN IndexRender
       ELSE NoIndexRender /\ dirty' = dirty
    /\ op' = [kind |-> "select", merged |-> FALSE, game |-> "badminton"]
    /\ swBase' = NoBase
    /\ UNCHANGED <<currentGame, gameStates, wsGameState, wsIncoming, wsPending,
                   aiResponse, inflight, comboCount, keys, sent, auth, aiApplied,
                   streak>>
    /\ UNCHANGED pollVars
    /\ UNCHANGED loops

\* canvas points the player may click: inside the court, and on the canvas
\* outside the court lines
ClickTargets == {Pos(Fx(300), Fx(100)), Pos(Fx(10), Fx(390))}

\* shot types picked on the selector in the explored runs
ShotTypes == {"clear", "smash"}

NextBadminton ==
    \/ currentGame = "fighting" /\ SwitchToGame("badminton")
    \/ currentGame = "badminton" /\ \E a \in AiLabels.badminton : AiAction(a)
    \/ Render
    \/ BadmintonTick
    \/ \E t \in ClickTargets : \E rnd \in Randoms : HandlePlayerShot(t, rnd)
    \/ \E s \in ShotTypes : SelectShot(s)

SpecBadminton == Init /\ [][NextBadminton]_vars

\* the player's actions of the two variants that report a success flag:
\* fighting moves, then badminton shots, each against an acting opponent
NextActions ==
    \/ currentGame = "fighting" /\ \E d \in FightingPushes : WsDelta(d)
    \/ \E m \in Moves : HandlePlayerMove(m)
    \/ currentGame = "fighting" /\ SwitchToGame("badminton")
    \/ currentGame = "badminton" /\ AiAction("smash")
    \/ Render
    \/ BadmintonTick
    \/ \E t \in ClickTargets : \E rnd \in Randoms : HandlePlayerShot(t, rnd)

SpecActions == Init /\ [][NextActions]_vars

----------------------------------------------------------------------------
(* Index: the session identifier and the personality poll *)

\* the variables of the hook and of the game components
gameVars == <<currentGame, gameStates, wsGameState, wsIncoming, wsPending, aiResponse,
              inflight, rendered, comboCount, keys, selectedShot, sent, auth, aiApplied,
              streak, loops>>

\* one second passes; a timer that is due fires before more time passes
Advance ==
    /\ now < MaxNow
    /\ now < poll.start + PollPeriod
    /\ now' = now + 1
    /\ op' = [kind |-> "clock", merged |-> FALSE]
    /\ swBase' = NoBase
    /\ NoIndexRender
    /\ UNCHANGED <<lastGet, getInflight, personalityFromAPI, dirty, remote, inputs>>
    /\ UNCHANGED gameVars

\* the interval created by the personality effect fires: fetchPersonality()
\* issues the GET with the sessionId its effect run captured
FetchPersonality ==
    /\ now >= poll.start + PollPeriod
    /\ poll' = [poll EXCEPT !.start = now]
    /\ lastGet' = [at |-> now, session |-> poll.session, issued |-> TRUE]
    /\ getInflight' = Min(MaxInflight, getInflight + 1)
    /\ op' = [kind |-> "poll", merged |-> FALSE]
    /\ swBase' = NoBase
    /\ UNCHANGED <<now, sessionId, personalityFromAPI, dirty, remote, inputs>>
    /\ UNCHANGED gameVars

\* bodies the personality endpoint may answer with (absent fields are null)
PersonalityBodies ==
    { [personality |-> [aggression_level |-> 7], raw_scores |-> NoPersonality],
      [personality |-> [aggression_level |-> 7], raw_scores |-> [aggression_level |-> 3]],
      [personality |-> NoPersonality, raw_scores |-> [aggression_level |-> 3]] }

\* the GET completes: .then(res => res.json()).then(data => ...), or .catch
PersonalityResponse(parsed, data) ==
    LET profile == IF data.raw_scores # NoPersonality
                   THEN data.raw_scores ELSE data.personality
        set     == parsed /\ data.personality # NoPersonality
    IN  /\ RemoteEvent
        /\ getInflight > 0
        /\ getInflight' = getInflight - 1
        /\ personalityFromAPI' = IF set THEN profile ELSE personalityFromAPI
        /\ dirty' = (dirty \/ (set /\ profile # personalityFromAPI))
        /\ op' = [kind |-> "personality", merged |-> FALSE, set |-> set]
        /\ swBase' = NoBase
        /\ NoIndexRender
        /\ UNCHANGED <<now, lastGet>>
        /\ UNCHANGED gameVars

NextSession ==
    \/ Advance
    \/ FetchPersonality
    \/ \E parsed \in BOOLEAN : \E data \in PersonalityBodies :
          PersonalityResponse(parsed, data)
    \/ \E g \in Games : SwitchToGame(g)
    \/ Render
    \/ \E a \in LocalActions[currentGame] : SendPlayerAction(a)

SpecSession == Init /\ [][NextSession]_vars

----------------------------------------------------------------------------
(* Properties of the store (specification Spec) *)

\* C1: switching from A to another variant B and straight back to A leaves
\* the three stored records as they were before the first switch.
C1_SwitchAndBackPreservesRecords ==
    (swBase.n = 2 /\ swBase.via # swBase.game /\ currentGame = swBase.game)
        => gameStates = swBase.states

\* documented bounds of a variant's record, as stored
InBoundsOf(g, s) ==
    CASE g = "fighting" ->
           /\ s.playerHealth >= 0 /\ s.playerHealth <= Fx(100)
           /\ s.aiHealth >= 0 /\ s.aiHealth <= Fx(100)
      [] g = "badminton" ->
           /\ s.rallyCount >= 0
           /\ s.playerScore >= 0 /\ s.aiScore >= 0
      [] g = "racing" ->
           /\ s.lap >= 1
           /\ s.playerPosition.x >= Fx(70) /\ s.playerPosition.x <= Fx(530)
           /\ s.aiPosition.x >= Fx(70) /\ s.aiPosition.x <= Fx(530)

InBounds(g) == InBoundsOf(g, gameStates[g])

\* C2: after every merge into the store, every bounded field of the target
\* variant lies within its bounds (out-of-range values are clamped).
C2_MergeKeepsBounds == op.merged => InBounds(op.game)

\* C3: a partial merge into variant V overwrites exactly the top-level
\* fields present in the partial, leaves V's other fields unchanged and
\* leaves the records of the other two variants unchanged.
C3_MergeFrame ==
    [][ op'.merged =>
          LET V == op'.game
              p == op'.partial
          IN  /\ DOMAIN gameStates'[V] = (DOMAIN gameStates[V]) \cup (DOMAIN p)
              /\ \A f \in DOMAIN p : gameStates'[V][f] = p[f]
              /\ \A f \in (DOMAIN gameStates[V]) \ (DOMAIN p) :
                    gameStates'[V][f] = gameStates[V][f]
              /\ \A g \in Games \ {V} : gameStates'[g] = gameStates[g] ]_vars

\* C3 witness: a discrete response carrying only aiHealth was merged into a
\* fighting record whose playerHealth an earlier delta had set
C3_Witness ==
    /\ op.kind = "http" /\ op.merged /\ op.game = "fighting"
    /\ DOMAIN op.partial = {"aiHealth"}
    /\ gameStates.fighting.aiHealth = Fx(40)
    /\ gameStates.fighting.playerHealth = Fx(150)

\* C4: once every arrived delta has been processed, each field holds the
\* value of the most recently completed authoritative delta that contained
\* it (unless a later local update wrote it).
C4_LastCompletedDeltaWins ==
    ~wsPending =>
        \A g \in Games : \A f \in DOMAIN auth[g] : gameStates[g][f] = auth[g][f]

\* C5: a successful discrete response is merged into the record of the
\* variant that was active when the call was issued, also after a switch,
\* and changes no other variant's record.
C5_ResponseGoesToIssuingVariant ==
    [][ (op'.kind = "http" /\ op'.merged) =>
          /\ \A f \in DOMAIN op'.partial :
                gameStates'[op'.game][f] = op'.partial[f]
          /\ \A g \in Games \ {op'.game} : gameStates'[g] = gameStates[g] ]_vars

\* C5 witness: a response was merged for a variant that is no longer active
C5_Witness ==
    /\ op.kind = "http" /\ op.merged /\ op.game # currentGame
    /\ \A f \in DOMAIN op.partial : gameStates[op.game][f] = op.partial[f]

\* C13: a discrete call that fails by transport error, by an unparsable
\* body, or by a body lacking a truthy success or game_state changes no field
\* of any variant (an optimistic local update made before stays in the store)
\* and only retires the call; a complete 200 response, also one that follows
\* failed calls, is merged.
C13_FailedCallChangesNothing ==
    [][ op'.kind = "http" =>
          IF op'.fault # "none"
          THEN /\ gameStates' = gameStates
               /\ currentGame' = currentGame
               /\ inflight' = [inflight EXCEPT ![op'.game] = @ - 1]
          ELSE op'.status = 200 =>
                 /\ op'.merged
                 /\ \A f \in DOMAIN op'.partial :
                       gameStates'[op'.game][f] = op'.partial[f] ]_vars

\* C13 witness: the discrete call sent after the optimistic update of
\* aiHealth to 92 has failed in transport, and the store still holds 92
C13_Witness ==
    /\ op.kind = "http" /\ op.fault = "transport" /\ op.game = "fighting"
    /\ sent.game = "fighting" /\ sent.action.action_type = "attack"
    /\ inflight.fighting = 0
    /\ gameStates.fighting.aiHealth = Fx(92)

\* C15: a streamed state payload that is malformed for the active variant
\* (empty, or carrying fields that are not part of that variant's record) is
\* discarded: processing it leaves the active record as it was, with no
\* field outside the record's declared shape.
C15_MalformedPayloadDiscarded ==
    [][ (/\ op'.kind = "render" /\ wsPending
         /\ wsIncoming \in MalformedPayloads[currentGame])
          => /\ gameStates'[currentGame] = gameStates[currentGame]
             /\ DOMAIN gameStates'[currentGame]
                   = DOMAIN InitialGameStates[currentGame] ]_vars

\* C14: a discrete response with a non-2xx HTTP status never changes the
\* store, whatever its body contains.
C14_Non2xxNeverMerged ==
    [][ (op'.kind = "http" /\ op'.status >= 300) => gameStates' = gameStates ]_vars

\* C20: the racing lap counter, the badminton rallyCount and the badminton
\* playerScore and aiScore never decrease in any step.
C20_CountersNeverDecrease ==
    [][ /\ gameStates'.racing.lap >= gameStates.racing.lap
        /\ gameStates'.badminton.rallyCount >= gameStates.badminton.rallyCount
        /\ gameStates'.badminton.playerScore >= gameStates.badminton.playerScore
        /\ gameStates'.badminton.aiScore >= gameStates.badminton.aiScore ]_vars

\* C26: a streamed delta is merged at most once: a change of the active
\* variant, which brings no new delta, merges nothing into the store.
C26_SwitchMergesNothing ==
    [][ op'.kind = "switch" => (~op'.merged /\ gameStates' = gameStates) ]_vars

----------------------------------------------------------------------------
(* Properties of the fighting variant (specification SpecFighting) *)

\* C6: each AI action is applied once: a tick that finds an aiLastAction
\* which an earlier tick has already applied changes nothing in the store.
C6_AiActionAppliedOnce ==
    [][ (op'.kind = "tick" /\ op'.again) => gameStates' = gameStates ]_vars

\* C7: a player move succeeds iff |player.x - ai.x| < 80 on the gameState the
\* handler reads; a successful punch (kick) sets aiHealth to
\* max(0, aiHealth - 8) (max(0, aiHealth - 12)); a miss, also at distance
\* exactly 80, leaves the fighting record unchanged.
C7_HitTestAndDamage ==
    [][ op'.kind = "move" =>
          LET gs  == rendered.fighting
              hit == Abs(gs.playerPosition.x - gs.aiPosition.x) < Fx(80)
          IN  /\ op'.success = hit
              /\ sent'.action.success = hit
              /\ (hit /\ op'.move = "punch") =>
                    gameStates'.fighting.aiHealth = Max(0, gs.aiHealth - Fx(8))
              /\ (hit /\ op'.move = "kick") =>
                    gameStates'.fighting.aiHealth = Max(0, gs.aiHealth - Fx(12))
              /\ ~hit => gameStates'.fighting = gameStates.fighting ]_vars

\* C7 witness: a punch at distance 79 has hit and taken exactly 8 of the 20
\* health points the AI had
C7_Witness ==
    /\ op.kind = "move" /\ op.move = "punch" /\ op.success
    /\ gameStates.fighting.aiPosition.x - gameStates.fighting.playerPosition.x = Fx(79)
    /\ gameStates.fighting.aiHealth = Fx(12)

\* C8: from combo counter 0, the k-th of k consecutive successful combo
\* moves deals 15 + 3*(k-1), leaves the counter at k, and the damage sent in
\* the PlayerAction is the damage subtracted from aiHealth before the clamp.
C8_ComboDamage ==
    [][ (op'.kind = "move" /\ streak' > 0) =>
          /\ sent'.action.damage = Fx(15) + (Fx(3) * (streak' - 1))
          /\ sent'.action.combo = streak'
          /\ comboCount' = streak'
          /\ gameStates'.fighting.aiHealth =
                Max(0, rendered.fighting.aiHealth - sent'.action.damage) ]_vars

\* C8 witness: the third consecutive successful combo has been played
C8_Witness ==
    /\ op.kind = "move" /\ op.move = "combo" /\ op.success
    /\ streak = 3 /\ comboCount = 3
    /\ sent.action.damage = Fx(21)

\* C9: the combo counter is 0 after any non-combo move and after any move
\* that misses.
C9_ComboResetOnMissOrOtherMove ==
    (op.kind = "move" /\ (op.move # "combo" \/ ~op.success)) => comboCount = 0

\* C18: when a successful player move is submitted, the variant-state
\* snapshot carried in the discrete call's action_data already includes the
\* move's optimistic effect (each field the move wrote has its new value).
C18_SnapshotIncludesEffect ==
    (op.kind = "move" /\ op.success)
        => \A f \in DOMAIN op.partial : sent.body[f] = op.partial[f]

\* C23: a PlayerAction is sent only in a step in which the player-side
\* state changed: a fighting move, which always sends its PlayerAction,
\* changes the fighting record.
C23_SendOnlyOnChange ==
    [][ op'.kind = "move" => gameStates'.fighting # gameStates.fighting ]_vars

\* C29: the success flag of a sent PlayerAction is true iff the optimistic
\* update of that action reached the store (a fighting move reduced aiHealth;
\* a badminton shot set shuttlecockPos to the target and incremented
\* rallyCount), and an action reporting success false changes no record.
C29_SuccessIffApplied ==
    [][ /\ op'.kind = "move"
          => /\ sent'.action.success
                 <=> gameStates'.fighting.aiHealth < gameStates.fighting.aiHealth
             /\ ~sent'.action.success => gameStates' = gameStates
        /\ op'.kind = "shot"
          => /\ sent'.action.success
                 <=> /\ gameStates'.badminton.shuttlecockPos =
                           [x |-> sent'.action.target[1], y |-> sent'.action.target[2]]
                     /\ gameStates'.badminton.rallyCount =
                           gameStates.badminton.rallyCount + 1
             /\ ~sent'.action.success => gameStates' = gameStates ]_vars

\* C25: a tick applying an AI attack label (aggressive_combo, quick_jab) sets
\* playerHealth to max(0, playerHealth - 12) iff |ai.x - player.x| < 80 on the
\* gameState the loop reads, and changes nothing else: aiHealth and both
\* positions are as before, and out of range the record is unchanged.
C25_AiAttack ==
    [][ (/\ op'.kind = "tick" /\ op'.game = "fighting"
         /\ op'.ai \in {"aggressive_combo", "quick_jab"})
          => LET gs  == rendered.fighting
                 hit == Abs(gs.aiPosition.x - gs.playerPosition.x) < Fx(80)
             IN  /\ hit => gameStates'.fighting =
                       [gameStates.fighting EXCEPT
                          !.playerHealth = Max(0, gs.playerHealth - Fx(12))]
                 /\ ~hit => gameStates'.fighting = gameStates.fighting ]_vars

\* C25 witness: a quick_jab at distance 79 has taken the player's last 4
\* health points, leaving 0
C25_Witness ==
    /\ op.kind = "tick" /\ op.ai = "quick_jab" /\ op.merged
    /\ rendered.fighting.aiPosition.x - rendered.fighting.playerPosition.x = Fx(79)
    /\ rendered.fighting.playerHealth = Fx(4)
    /\ gameStates.fighting.playerHealth = 0

KnownLabels ==
    [ fighting  |-> {"aggressive_combo", "quick_jab", "rush_forward", "block"},
      badminton |-> {"smash", "aggressive_smash", "drop_shot", "clear_shot", "net_shot"},
      racing    |-> {"overtake_attempt", "perfect_racing_line", "blocking_defense",
                     "aggressive_overtake"} ]

\* C12: the first tick that applies, to the current record, an AI action
\* whose non-empty label the active variant's interpreter does not recognise
\* (no case of its own in the switch) changes at least one field of
\* that variant's record, and the record stays within the variant's bounds.
C12_UnknownLabelStillActs ==
    [][ (/\ op'.kind = "tick" /\ ~op'.again
         /\ rendered[op'.game] = gameStates[op'.game]
         /\ op'.ai # "" /\ op'.ai \notin KnownLabels[op'.game])
          => /\ gameStates'[op'.game] # gameStates[op'.game]
             /\ InBoundsOf(op'.game, gameStates'[op'.game]) ]_vars

----------------------------------------------------------------------------
(* Properties of the racing variant (specification SpecRacing) *)

\* C10: under local ticks alone playerSpeed never exceeds 140, aiSpeed never
\* exceeds 160 (150 right after an overtake_attempt), and both cars'
\* x-positions stay within [70, 530].
C10_RacingBounds ==
    LET r == gameStates.racing
    IN  /\ r.playerSpeed <= Fx(140)
        /\ r.aiSpeed <= Fx(160)
        /\ r.playerPosition.x >= Fx(70) /\ r.playerPosition.x <= Fx(530)
        /\ r.aiPosition.x >= Fx(70) /\ r.aiPosition.x <= Fx(530)
        /\ (op.kind = "tick" /\ op.game = "racing" /\ op.ai = "overtake_attempt")
              => r.aiSpeed <= Fx(150)

\* C10 witness: with accelerate held and the AI on aggressive_overtake, a
\* tick has run with both speeds at their maximum
C10_Witness ==
    /\ op.kind = "tick" /\ op.game = "racing" /\ "ArrowUp" \in keys
    /\ rendered.racing.playerSpeed = Fx(140)
    /\ rendered.racing.aiSpeed = Fx(160)
    /\ gameStates.racing.playerSpeed = Fx(140)
    /\ gameStates.racing.aiSpeed = Fx(160)

\* C19: in a run driven by local ticks alone, a tick that takes the player's
\* car or the AI's car across the finish boundary (y from above 50 to 50 or
\* below) increases the stored lap counter by 1.
C19_LapCountsCrossing ==
    [][ (/\ op'.kind = "tick" /\ op'.game = "racing"
         /\ wsGameState = EmptyRec /\ ~wsPending
         /\ \/ /\ gameStates.racing.playerPosition.y > Fx(50)
               /\ gameStates'.racing.playerPosition.y <= Fx(50)
            \/ /\ gameStates.racing.aiPosition.y > Fx(50)
               /\ gameStates'.racing.aiPosition.y <= Fx(50))
          => gameStates'.racing.lap = gameStates.racing.lap + 1 ]_vars

\* C22: under local simulation alone (no remote delta has reached the
\* store) the positions stay inside the playable area:
\* fighting aiPosition.x within the arena width [0,600], racing
\* playerPosition.y and aiPosition.y within the track length [0,400].
C22_PositionsInArea ==
    (wsGameState = EmptyRec /\ ~wsPending) =>
        /\ gameStates.fighting.aiPosition.x >= 0
        /\ gameStates.fighting.aiPosition.x <= Fx(600)
        /\ gameStates.racing.playerPosition.y >= 0
        /\ gameStates.racing.playerPosition.y <= Fx(400)
        /\ gameStates.racing.aiPosition.y >= 0
        /\ gameStates.racing.aiPosition.y <= Fx(400)

\* C30: a racing tick that reads the current record and applies an
\* accelerating AI action (overtake_attempt, perfect_racing_line,
\* aggressive_overtake) never lowers aiSpeed, and one that applies the default
\* branch for an unrecognised label never raises it.
C30_AiSpeedDirection ==
    [][ (/\ op'.kind = "tick" /\ op'.game = "racing"
         /\ rendered.racing = gameStates.racing)
          => /\ op'.ai \in {"overtake_attempt", "perfect_racing_line", "aggressive_overtake"}
                  => gameStates'.racing.aiSpeed >= gameStates.racing.aiSpeed
             /\ (op'.ai # "" /\ op'.ai \notin KnownLabels.racing)
                  => gameStates'.racing.aiSpeed <= gameStates.racing.aiSpeed ]_vars

\* C27: a racing tick does not put back an older value over one that an
\* authoritative delta merged after the tick's snapshot was taken: a field
\* among lap, playerSpeed, playerPosition that holds a delta's value which
\* the rendered snapshot does not have yet still holds it after the tick.
C27_TickKeepsLaterDelta ==
    [][ (op'.kind = "tick" /\ op'.game = "racing")
          => \A f \in (DOMAIN auth.racing) \cap {"lap", "playerSpeed", "playerPosition"} :
                (/\ gameStates.racing[f] = auth.racing[f]
                 /\ rendered.racing[f] # auth.racing[f])
                   => gameStates'.racing[f] = auth.racing[f] ]_vars

\* C24: at every moment exactly the active variant has a live loop timer,
\* and only one, and every tick that runs is a tick of the active variant.
C24_SingleLiveTimer ==
    /\ \A g \in Games : loops[g] = IF g = currentGame THEN 1 ELSE 0
    /\ op.kind = "tick" => op.game = currentGame

\* C24 witness: after the switch from fighting to racing, the racing loop,
\* re-created by the render of an earlier tick's update, has ticked again
C24_Witness ==
    /\ currentGame = "racing" /\ loops.racing = 1 /\ loops.fighting = 0
    /\ op.kind = "tick" /\ op.game = "racing" /\ op.again
    /\ rendered.racing # InitialGameStates.racing

----------------------------------------------------------------------------
(* Properties of the badminton variant (specification SpecBadminton) *)

\* C11: every processed badminton shot, the player's (whether its success
\* trial succeeds or fails) and the AI's, increments rallyCount by exactly 1.
C11_EveryShotCountsRally ==
    [][ (op'.kind = "shot" \/ (op'.kind = "tick" /\ op'.game = "badminton" /\ op'.ai # ""))
          => gameStates'.badminton.rallyCount = gameStates.badminton.rallyCount + 1 ]_vars

\* the court rectangle drawn by drawCourt: x in [50,550], y in [50,350]
InCourt(pos) ==
    /\ pos.x >= Fx(50) /\ pos.x <= Fx(550)
    /\ pos.y >= Fx(50) /\ pos.y <= Fx(350)

\* C21: after any badminton shot, the player's or the AI's, shuttlecockPos
\* lies inside the court rectangle (a click target outside it is clamped).
C21_ShuttlecockInCourt ==
    [][ (op'.kind = "shot" \/ (op'.kind = "tick" /\ op'.game = "badminton" /\ op'.ai # ""))
          => InCourt(gameStates'.badminton.shuttlecockPos) ]_vars

----------------------------------------------------------------------------
(* Properties of the session (specification SpecSession) *)

\* C16: the session identifier is created once: the identifier Index holds,
\* the session_id of every discrete POST and the identifier of every
\* personality GET are the one computed when the client started.
C16_SessionIdStable ==
    /\ sessionId = SessionIdAt(0)
    /\ sent.session = SessionIdAt(0)
    /\ lastGet.session = SessionIdAt(0)

\* C17: the personality poll is independent of re-renders: at every moment
\* the last personality GET (or, before the first, the start of the client)
\* lies at most one poll period back.
C17_PollEveryPeriod == now - lastGet.at <= PollPeriod

====
